---- MODULE Spec2Model ----
(***************************************************************************)
(* pyCHIL: the grid builder (Map.set_blocks), the Block type, the fetch    *)
(* batch (Map.gather_fetch_workers / Block.async_fetch), the consistency   *)
(* check and the compositor (Map.build_map).                               *)
(*                                                                         *)
(* Numbers.  Pixel sizes are Python ints and are modelled exactly.         *)
(* Coordinates are Python floats (binary floating point, round to nearest, *)
(* ties to even).  They are modelled as integers counted in coordinate     *)
(* steps, and every float addition or subtraction of the source is         *)
(* rounded by Rnd to MantBits significant bits, the way binary64 rounds to *)
(* 53.  MantBits is scaled down so that rounding happens on the small      *)
(* coordinates the model enumerates.                                       *)
(*                                                                         *)
(* Geodesy.  geopy's distance and destination are library code.  They are  *)
(* modelled on a flat grid: one coordinate step of latitude is LatLen      *)
(* lengths, one of longitude LongLen lengths, one length being 1.27 km, so *)
(* that Block.get_dots is floor(resolution * lengths * DotsK / scale).     *)
(***************************************************************************)
EXTENDS Integers, Sequences, FiniteSets, TLC

\* ------------------------------------------------------------- bounds
\* Significant bits of a float in the model (53 in binary64).
MantBits == 2
\* The top-right latitude is drawn from 0 .. MaxLat, the bottom-left from 0 .. 1.
MaxLat == 3
\* The bottom-left longitude is drawn from -MaxLong .. 1, the top-right from
\* 0 .. MaxLong: the boxes lie across the prime meridian.
MaxLong == 4
\* set_blocks is followed while the grid has no more than MaxBlocks blocks.
MaxBlocks == 4
\* A Block driven on its own derives no more than MaxDerived blocks in a row.
MaxDerived == 1

\* ---------------------------------------------------- program constants
\* A faulty limit, one pixel above the service's.
MaxPixelsOffByOne == 2048 + 1

\* The service limit on WIDTH and HEIGHT, also Block.__init__'s default size.
MaxPixels == 2048

\* ------------------------------------------------------------ geodesy
\* Lengths (of 1.27 km) in one coordinate step along a meridian.
LatLen == 2
\* Lengths in one coordinate step along a parallel.
LongLen == 1
\* inches on the map of one length at scale 1:1 : 1.27 km * 100000 / 2.54.
DotsK == 50000

Abs(n) == IF n < 0 THEN -n ELSE n

\* ------------------------------------------------------------- floats
RECURSIVE Quantum(_, _)
\* The spacing of the floats around magnitude a: the least power of two q
\* such that a needs no more than MantBits bits when counted in steps of q.
Quantum(a, q) == IF a <= (2 ^ MantBits) * q THEN q ELSE Quantum(a, 2 * q)

\* Round to nearest, ties to even: the result of every float operation.
Rnd(v) ==
    LET a   == Abs(v)
        q   == Quantum(a, 1)
        lo  == (a \div q) * q
        rem == a - lo
        r   == IF 2 * rem < q THEN lo
               ELSE IF 2 * rem > q THEN lo + q
               ELSE IF (lo \div q) % 2 = 0 THEN lo ELSE lo + q
    IN  IF v < 0 THEN -r ELSE r

\* Python's float + and -.
FAdd(a, b) == Rnd(a + b)
FSub(a, b) == Rnd(a - b)

\* The floats of the model in lo .. hi.
Floats(lo, hi) == {v \in lo..hi : Rnd(v) = v}

\* -------------------------------------------------------------- points
\* geopy.Point(latitude, longitude), within range (no normalisation).
Point(latitude, longitude) == [latitude |-> latitude, longitude |-> longitude]

\* geopy.distance.distance(c1, c2), in lengths, for two points on one
\* meridian or on one parallel (the only pairs the program measures).
distance(coord1, coord2) ==
    LatLen * Abs(coord1.latitude - coord2.latitude)
    + LongLen * Abs(coord1.longitude - coord2.longitude)

\* --------------------------------------------------------------- Block
\* Python's None.
None == [None |-> TRUE]

\* A faulty get_dots that multiplies by the scale where it should divide.
get_dots_by_scale(resolution, scale, coord1, coord2) ==
    (resolution * distance(coord1, coord2) * scale) \div 50000

\* Block.get_dots: km * 100000 / scale cm on the map, / 2.54 inches,
\* floor(resolution * inches).
get_dots(resolution, scale, coord1, coord2) ==
    (resolution * distance(coord1, coord2) * DotsK) \div scale

\* Block.__init__, lines 47-58: the fields of a new Block.
NewBlock(bl_point, tr_point, resolution, scale, x, y, width, height) ==
    [ br_point       |-> Point(bl_point.latitude, tr_point.longitude),
      bl_point       |-> bl_point,
      tr_point       |-> tr_point,
      northern_block |-> None,
      eastern_block  |-> None,
      resolution     |-> resolution,
      scale          |-> scale,
      height         |-> height,
      width          |-> width,
      image          |-> None,
      x              |-> x,
      y              |-> y ]

\* A faulty size test, >= for >: a Block of exactly the limit is refused too.
BlockInitRaisesAtLimit(b) ==
    \/ b.width >= 2048 \/ b.height >= 2048
    \/ b.bl_point.longitude > b.br_point.longitude
    \/ b.bl_point.latitude > b.br_point.latitude

\* Block.__init__, lines 60-63: the new Block is refused (BlockException).
BlockInitRaises(b) ==
    \/ b.width > MaxPixels \/ b.height > MaxPixels
    \/ b.bl_point.longitude > b.br_point.longitude
    \/ b.bl_point.latitude > b.br_point.latitude

\* Block.set_width: refused (BlockException) above the limit.
SetWidthRaises(width) == width > MaxPixels

\* A faulty set_width that assigns before it tests.
SetWidthUnchecked(b, width) == [b EXCEPT !.width = width]

\* Block.set_width: the block after the call.
set_width(b, width) ==
    IF SetWidthRaises(width) THEN b ELSE [b EXCEPT !.width = width]

\* Block.set_height: refused (BlockException) above the limit.
SetHeightRaises(height) == height > MaxPixels

\* Block.set_height: the block after the call.
set_height(b, height) ==
    IF SetHeightRaises(height) THEN b ELSE [b EXCEPT !.height = height]

\* The result of set_northern_block / set_eastern_block: the derived block,
\* or exit = TRUE when a BlockException made the method call sys.exit(1).
Derived(exit, block) == [exit |-> exit, block |-> block]

\* A faulty set_northern_block that leaves the new block its default width.
set_northern_block_default_width(self, lat, last) ==
    LET ntblock    == NewBlock(Point(self.tr_point.latitude, self.bl_point.longitude),
                               Point(FAdd(self.tr_point.latitude, lat),
                                     self.tr_point.longitude),
                               self.resolution, self.scale, self.x, self.y + 1, 2048, 2048)
        new_height == get_dots(self.resolution, self.scale,
                               ntblock.br_point, ntblock.tr_point)
    IN  IF ~last THEN Derived(FALSE, ntblock)
        ELSE IF new_height > 2048 THEN Derived(TRUE, None)
        ELSE Derived(FALSE, [ntblock EXCEPT !.height = new_height])

\* Block.set_northern_block(lat, last), lines 148-159: the block it builds.
set_northern_block(self, lat, last) ==
    LET bl_point_ntblock == Point(self.tr_point.latitude, self.bl_point.longitude)
        tr_point_ntblock == Point(FAdd(self.tr_point.latitude, lat),
                                  self.tr_point.longitude)
        ntblock    == NewBlock(bl_point_ntblock, tr_point_ntblock, self.resolution,
                               self.scale, self.x, self.y + 1, MaxPixels, MaxPixels)
        widened    == set_width(ntblock, self.width)
        new_height == get_dots(self.resolution, self.scale,
                               ntblock.br_point, ntblock.tr_point)
    IN  IF BlockInitRaises(ntblock) \/ SetWidthRaises(self.width)
          THEN Derived(TRUE, None)
        ELSE IF ~last THEN Derived(FALSE, widened)
        ELSE IF SetHeightRaises(new_height) THEN Derived(TRUE, None)
        ELSE Derived(FALSE, set_height(widened, new_height))

\* Block.set_eastern_block(long, last), lines 165-176: the block it builds.
set_eastern_block(self, long, last) ==
    LET bl_point_etblock == Point(self.bl_point.latitude, self.tr_point.longitude)
        tr_point_etblock == Point(self.tr_point.latitude,
                                  FAdd(self.tr_point.longitude, long))
        etblock   == NewBlock(bl_point_etblock, tr_point_etblock, self.resolution,
                              self.scale, self.x + 1, self.y, MaxPixels, MaxPixels)
        raised    == set_height(etblock, self.height)
        new_width == get_dots(self.resolution, self.scale,
                              etblock.bl_point, etblock.br_point)
    IN  IF BlockInitRaises(etblock) \/ SetHeightRaises(self.height)
          THEN Derived(TRUE, None)
        ELSE IF ~last THEN Derived(FALSE, raised)
        ELSE IF SetWidthRaises(new_width) THEN Derived(TRUE, None)
        ELSE Derived(FALSE, set_width(raised, new_width))

\* A reference to the block at column x, row y of Map.blocks.
Ref(x, y) == [x |-> x, y |-> y]

\* ----------------------------------------------------------------- Map
VARIABLES
    map,      \* the Map object: its corners, resolution, scale, blocks, width, height, image
    loc,      \* the local variables of Map.set_blocks
    pc,       \* the position of the main script (illo.py, lines 84-92)
    tasks,    \* the fetch tasks of gather_fetch_workers: block reference -> position
    bm,       \* the local variables of Map.build_map, with the pastes made so far
    blk,      \* a Block driven directly through its own methods
    call,     \* the last call made on blk, with its arguments
    exc,      \* what that call raised: NoExc, "BlockException" or "SystemExit"
    ret       \* what a function called on its own returned

vars == <<map, loc, pc, tasks, bm, blk, call, exc, ret>>

\* The (resolution, scale) pairs the model runs: max blocks of 1 x 2, of
\* 2 x 4 and of 5 x 10 coordinate steps (latitude x longitude).
Params == { [resolution |-> 512, scale |-> 25000],
            [resolution |-> 256, scale |-> 25000],
            [resolution |-> 200, scale |-> 50000] }

\* Map.__init__, lines 49-61.
NewMap(bl_point, tr_point, resolution, scale) ==
    [ bl_point   |-> bl_point,
      tr_point   |-> tr_point,
      tl_point   |-> Point(tr_point.latitude, bl_point.longitude),
      br_point   |-> Point(bl_point.latitude, tr_point.longitude),
      resolution |-> resolution,
      scale      |-> scale,
      blocks     |-> << >>,
      width      |-> 0,
      height     |-> 0,
      image      |-> None ]

\* The greatest float of the model in lo .. hi (lo is one).
MaxFloat(lo, hi) == CHOOSE v \in Floats(lo, hi) : \A w \in Floats(lo, hi) : w <= v

\* geodesic.destination(point, bearing, kilometers) for bearing 0 (north) and
\* 90 (east), kilometers being num / den lengths: the farthest float that is
\* no farther than that.
destination(point, bearing, num, den) ==
    IF bearing = 0
      THEN Point(MaxFloat(point.latitude, point.latitude + num \div (den * LatLen)),
                 point.longitude)
      ELSE Point(point.latitude,
                 MaxFloat(point.longitude, point.longitude + num \div (den * LongLen)))

\* Map.get_max_block: 2048 / resolution inches, * 2.54 cm, * scale / 100000 km
\* is MaxPixels * scale / (resolution * DotsK) lengths.
get_max_block(m) ==
    LET num == MaxPixels * m.scale
        den == m.resolution * DotsK
        max_tl_point == destination(m.bl_point, 0, num, den)
        max_br_point == destination(m.bl_point, 90, num, den)
    IN  [ latitude  |-> IF max_tl_point.latitude <= m.tl_point.latitude
                          THEN FSub(max_tl_point.latitude, m.bl_point.latitude)
                          ELSE FSub(m.tl_point.latitude, m.bl_point.latitude),
          longitude |-> IF max_br_point.longitude <= m.br_point.longitude
                          THEN FSub(max_br_point.longitude, m.bl_point.longitude)
                          ELSE FSub(m.br_point.longitude, m.bl_point.longitude) ]

\* Map.get_first_block.
get_first_block(m, lat, long) ==
    LET bl_block_point == m.bl_point
        tr_block_point == Point(FAdd(m.bl_point.latitude, lat),
                                FAdd(m.bl_point.longitude, long))
    IN  NewBlock(bl_block_point, tr_block_point, m.resolution, m.scale, 0, 0,
                 MaxPixels, MaxPixels)

\* The block a reference names.
BlockAt(blocks, ref) == blocks[ref.x + 1][ref.y + 1]

\* The references of all blocks of the grid.
AllRefs(blocks) ==
    UNION { {Ref(x, y) : y \in 0..(Len(blocks[x + 1]) - 1)} : x \in 0..(Len(blocks) - 1) }

\* The number of blocks of the grid.
NumBlocks(blocks) == Cardinality(AllRefs(blocks))

\* The locals of set_blocks before it runs.
NoLocals ==
    [ lat |-> 0, long |-> 0, i |-> 0,
      column_first_block |-> None, column_block |-> None,
      block_starting_longitude |-> 0, block_ending_longitude |-> 0,
      next_block_starting_latitude |-> 0, next_block_ending_latitude |-> 0 ]

\* The locals of build_map before it runs.
NoBuild == [ column |-> 0, row |-> 0, x |-> 0, y |-> 0, pasted |-> << >> ]

\* No exception.
NoExc == "none"

\* The Block-level variables while no Block is driven directly.
BlockIdle == blk = None /\ call = None /\ exc = NoExc

\* A faulty test of line 159 that waits for the starting longitude to be the
\* box's top-right longitude.
ColumnLoopTestUntilEqual == loc.block_starting_longitude /= map.tr_point.longitude

\* A faulty test of line 159 that opens a column at the box's eastern edge.
ColumnLoopTestInclusive == loc.block_starting_longitude <= map.tr_point.longitude

\* The test of the column loop (line 159).
ColumnLoopTest == loc.block_starting_longitude < map.tr_point.longitude

\* The test of line 170: the next column's first block is a complete block.
ColumnIsComplete == loc.block_ending_longitude <= map.tr_point.longitude

\* The test of the row loop (line 187).
RowLoopTest == loc.next_block_starting_latitude < map.tr_point.latitude

\* A faulty test of line 189 that looks at the next block's southern end.
RowIsCompleteByStart == loc.next_block_starting_latitude <= map.tr_point.latitude

\* The test of line 189: the next block of the column is a complete block.
RowIsComplete == loc.next_block_ending_latitude <= map.tr_point.latitude

\* Map.set_blocks, lines 143-158: the max block, the first block, the locals.
\* (max_block and first are bound as values, so that they are computed once
\* per step, also where the step is only tested for being enabled.)
SetBlocksBegin ==
    /\ pc = "main"
    /\ \E max_block \in {get_max_block(map)} :
       \E first \in {get_first_block(map, max_block.latitude, max_block.longitude)} :
       LET lat  == max_block.latitude
           long == max_block.longitude
       IN  IF BlockInitRaises(first)
             THEN /\ map' = [map EXCEPT !.blocks = << << >> >>]
                  /\ loc' = [loc EXCEPT !.lat = lat, !.long = long]
                  /\ pc' = "BlockException"
             ELSE /\ map' = [map EXCEPT !.blocks = << <<first>> >>,
                                        !.width = first.width,
                                        !.height = first.height]
                  /\ loc' = [loc EXCEPT
                        !.lat = lat, !.long = long, !.i = 0,
                        !.column_first_block = Ref(0, 0),
                        !.block_starting_longitude = first.bl_point.longitude,
                        !.block_ending_longitude =
                            FAdd(first.bl_point.longitude, long)]
                  /\ pc' = "column_loop"
    /\ UNCHANGED <<tasks, bm, blk, call, exc, ret>>

\* Lines 184-186: the locals of the row loop, for the column whose first
\* block is cfb.
EnterColumn(l, blocks, cfb) ==
    [l EXCEPT
        !.column_first_block = cfb,
        !.column_block = cfb,
        !.next_block_starting_latitude = BlockAt(blocks, cfb).tr_point.latitude,
        !.next_block_ending_latitude =
            FAdd(BlockAt(blocks, cfb).tr_point.latitude, l.lat)]

\* Map.set_blocks, lines 159-186: one pass of the column loop down to the
\* row loop; from the second pass on it derives the column's first block.
ColumnLoopBody ==
    /\ pc = "column_loop"
    /\ ColumnLoopTest
    /\ IF loc.i = 0
         THEN /\ map' = map
              /\ loc' = EnterColumn(loc, map.blocks, loc.column_first_block)
              /\ pc' = "row_loop"
         ELSE /\ NumBlocks(map.blocks) < MaxBlocks
              /\ \E d \in {LET self == BlockAt(map.blocks, loc.column_first_block)
                             IN  IF ColumnIsComplete
                                   THEN set_eastern_block(self, loc.long, FALSE)
                                   ELSE set_eastern_block(self,
                                           FSub(map.tr_point.longitude,
                                                loc.block_starting_longitude), TRUE)} :
                 LET cfb  == loc.column_first_block
                     next == Ref(loc.i, 0)
                     linked == [map.blocks EXCEPT
                                  ![cfb.x + 1][cfb.y + 1].eastern_block = next]
                     blocks == Append(linked, <<d.block>>)
                 IN  IF d.exit
                       THEN /\ map' = [map EXCEPT !.blocks = Append(@, << >>)]
                            /\ loc' = loc
                            /\ pc' = "SystemExit"
                       ELSE /\ map' = [map EXCEPT !.blocks = blocks,
                                                  !.width = @ + d.block.width]
                            /\ loc' = EnterColumn(loc, blocks, next)
                            /\ pc' = "row_loop"
    /\ UNCHANGED <<tasks, bm, blk, call, exc, ret>>

\* A faulty accumulation without the test of line 198: every column adds.
HeightAfterAnyColumn(height, i, block) == height + block.height

\* Lines 198-199: Map.height after the row loop appended block to column i.
HeightAfter(height, i, block) == IF i = 0 THEN height + block.height ELSE height

\* Map.set_blocks, lines 187-202: one pass of the row loop.
RowLoopBody ==
    /\ pc = "row_loop"
    /\ RowLoopTest
    /\ NumBlocks(map.blocks) < MaxBlocks
    /\ \E d \in {LET self == BlockAt(map.blocks, loc.column_block)
                   IN  IF RowIsComplete
                         THEN set_northern_block(self, loc.lat, FALSE)
                         ELSE set_northern_block(self,
                                 FSub(map.tr_point.latitude,
                                      loc.next_block_starting_latitude), TRUE)} :
       LET cb   == loc.column_block
           next == Ref(loc.i, Len(map.blocks[loc.i + 1]))
           linked == [map.blocks EXCEPT
                        ![cb.x + 1][cb.y + 1].northern_block = next]
           blocks == [linked EXCEPT ![loc.i + 1] = Append(@, d.block)]
       IN  IF d.exit
             THEN /\ map' = map
                  /\ loc' = loc
                  /\ pc' = "SystemExit"
             ELSE /\ map' = [map EXCEPT
                                !.blocks = blocks,
                                !.height = HeightAfter(@, loc.i, d.block)]
                  /\ loc' = [loc EXCEPT
                        !.column_block = next,
                        !.next_block_starting_latitude = loc.next_block_ending_latitude,
                        !.next_block_ending_latitude =
                            FAdd(loc.next_block_ending_latitude, loc.lat)]
                  /\ pc' = "row_loop"
    /\ UNCHANGED <<tasks, bm, blk, call, exc, ret>>

\* Map.set_blocks, lines 204-206: the row loop is over, on to the next column.
RowLoopExit ==
    /\ pc = "row_loop"
    /\ ~RowLoopTest
    /\ loc' = [loc EXCEPT
          !.block_starting_longitude = loc.block_ending_longitude,
          !.block_ending_longitude = FAdd(loc.block_ending_longitude, loc.long),
          !.i = loc.i + 1]
    /\ pc' = "column_loop"
    /\ UNCHANGED <<map, tasks, bm, blk, call, exc, ret>>

\* Map.set_blocks, line 208: the column loop is over, the fetch is called.
ColumnLoopExit ==
    /\ pc = "column_loop"
    /\ ~ColumnLoopTest
    /\ pc' = "fetch"
    /\ UNCHANGED <<map, loc, tasks, bm, blk, call, exc, ret>>

\* --------------------------------------------------------------- fetch
\* A fetch task: where async_fetch stands ("get" and "read" are its two
\* awaits, the other positions are its three ways to return) and the body of
\* the response the service gave it, once it has one.
Task(at, body) == [at |-> at, body |-> body]

\* The bodies a response can carry: one that decodes as an image, one that
\* does not.
Bodies == {"image", "not an image"}

\* A fetch task is over: it stored the image, or logged one of the two
\* exceptions that async_fetch catches.
TaskOver == {"image", "UnidentifiedImageError", "ClientConnectorError"}

\* A faulty async_fetch that logs the error and raises it again: the task
\* ends with the exception, and so does the gather that awaits it.
CaughtReraised(t, ref, error) ==
    [t EXCEPT ![ref] = [at |-> "raised", body |-> t[ref].body]]

\* A faulty batch in which the error of one task cancels the tasks still in
\* flight.
CaughtCancelling(t, ref, error) ==
    [r \in DOMAIN t |->
        IF r = ref THEN [at |-> error, body |-> t[r].body]
        ELSE IF t[r].at \in {"get", "read"}
               THEN [at |-> "CancelledError", body |-> t[r].body]
        ELSE t[r]]

\* async_fetch, lines 88-92: the task of block ref caught error and logged
\* it; it returns, and no other task is touched.
Caught(t, ref, error) == [t EXCEPT ![ref].at = error]

\* gather_fetch_workers, lines 238-243: one async_fetch coroutine per block,
\* all handed to asyncio.gather, which starts them all; each runs (lines
\* 81-83) up to its await of session.get.
GatherLaunch ==
    /\ pc = "fetch"
    /\ tasks' = [ref \in AllRefs(map.blocks) |-> Task("get", "no response")]
    /\ pc' = "gather"
    /\ UNCHANGED <<map, loc, bm, blk, call, exc, ret>>

\* async_fetch, lines 83-84: the response arrives, the task awaits its body.
TaskResponse(ref, body) ==
    /\ pc = "gather"
    /\ tasks[ref].at = "get"
    /\ tasks' = [tasks EXCEPT ![ref] = Task("read", body)]
    /\ UNCHANGED <<map, loc, pc, bm, blk, call, exc, ret>>

\* async_fetch, lines 91-92: session.get raises ClientConnectorError, which
\* is logged; the task returns.
TaskConnectorError(ref) ==
    /\ pc = "gather"
    /\ tasks[ref].at = "get"
    /\ tasks' = Caught(tasks, ref, "ClientConnectorError")
    /\ UNCHANGED <<map, loc, pc, bm, blk, call, exc, ret>>

\* PIL.Image.open(BytesIO(content)): a decoded image.
Image == [format |-> "PNG"]

\* A faulty store that sets the image of blocks[0][0] whatever the task.
StoreImageInFirstBlock(blocks, ref) ==
    [blocks EXCEPT ![1][1].image = Image]

\* The grid after async_fetch has stored the decoded image of block ref.
StoreImage(blocks, ref) ==
    [blocks EXCEPT ![ref.x + 1][ref.y + 1].image = Image]

\* async_fetch, lines 84-87: the body is read and decodes as an image.
TaskImage(ref) ==
    /\ pc = "gather"
    /\ tasks[ref] = Task("read", "image")
    /\ map' = [map EXCEPT !.blocks = StoreImage(@, ref)]
    /\ tasks' = [tasks EXCEPT ![ref].at = "image"]
    /\ UNCHANGED <<loc, pc, bm, blk, call, exc, ret>>

\* async_fetch, lines 84-89: the body is read and is no image: Image.open
\* raises UnidentifiedImageError, which is logged; the task returns.
TaskUnidentified(ref) ==
    /\ pc = "gather"
    /\ tasks[ref] = Task("read", "not an image")
    /\ tasks' = Caught(tasks, ref, "UnidentifiedImageError")
    /\ UNCHANGED <<map, loc, pc, bm, blk, call, exc, ret>>

\* A faulty wait that is over as soon as one task has returned.
GatherIsOverFirst(t) ==
    \E ref \in DOMAIN t : t[ref].at \in {"image", "UnidentifiedImageError", "ClientConnectorError"}

\* asyncio.gather is over: every task it was given has returned.
GatherIsOver(t) == \A ref \in DOMAIN t : t[ref].at \in TaskOver

\* gather_fetch_workers, line 243, and fetch_blocks_concurrently, lines
\* 225-226: the await of gather resumes, the session is closed, asyncio.run
\* and set_blocks return.
GatherJoin ==
    /\ pc = "gather"
    /\ GatherIsOver(tasks)
    /\ pc' = "fetched"
    /\ UNCHANGED <<map, loc, tasks, bm, blk, call, exc, ret>>

\* ------------------------------------------------- consistency, build_map
\* check_blocks_consistency, lines 246-249: the last block of the last column.
LastBlock(blocks) == blocks[Len(blocks)][Len(blocks[Len(blocks)])]

\* check_blocks_consistency, lines 251-252: the test that raises MapException.
NotWellBuilt(m) ==
    \/ LastBlock(m.blocks).tr_point.longitude /= m.tr_point.longitude
    \/ LastBlock(m.blocks).tr_point.latitude /= m.tr_point.latitude

\* Map.check_blocks_consistency (illo.py, line 90).
CheckBlocksConsistency ==
    /\ pc = "fetched"
    /\ pc' = IF NotWellBuilt(map) THEN "MapException" ELSE "checked"
    /\ UNCHANGED <<map, loc, tasks, bm, blk, call, exc, ret>>

\* build_map, lines 269-271: the canvas, x = 0, the first column.
BuildMapBegin ==
    /\ pc = "checked"
    /\ bm' = [NoBuild EXCEPT !.column = 0, !.x = 0]
    /\ pc' = "build_column"
    /\ UNCHANGED <<map, loc, tasks, blk, call, exc, ret>>

\* build_map, lines 271-273: the next column, from its northernmost block.
BuildMapColumn ==
    /\ pc = "build_column"
    /\ bm.column < Len(map.blocks)
    /\ bm' = [bm EXCEPT !.y = 0, !.row = Len(map.blocks[bm.column + 1]) - 1]
    /\ pc' = "build_row"
    /\ UNCHANGED <<map, loc, tasks, blk, call, exc, ret>>

\* A faulty step down the canvas, by the block's width.
NextYByWidth(y, block) == y + block.width

\* build_map, line 276: y after block is pasted.
NextY(y, block) == y + block.height

\* build_map, lines 273-276: one block is pasted at (x, y).  Image.paste
\* given None for the image and a two-item box raises ValueError.
BuildMapPaste ==
    /\ pc = "build_row"
    /\ bm.row >= 0
    /\ LET block == BlockAt(map.blocks, Ref(bm.column, bm.row))
       IN  IF block.image = None
             THEN /\ bm' = bm
                  /\ pc' = "ValueError"
             ELSE /\ bm' = [bm EXCEPT
                        !.pasted = Append(@, [ block |-> Ref(bm.column, bm.row),
                                               x |-> bm.x, y |-> bm.y ]),
                        !.y = NextY(@, block),
                        !.row = @ - 1]
                  /\ pc' = "build_row"
    /\ UNCHANGED <<map, loc, tasks, blk, call, exc, ret>>

\* build_map, line 277: the column is pasted; x moves on by the width of the
\* block the inner loop ended on, the column's first block.
BuildMapColumnEnd ==
    /\ pc = "build_row"
    /\ bm.row < 0
    /\ bm' = [bm EXCEPT !.x = @ + BlockAt(map.blocks, Ref(bm.column, 0)).width,
                        !.column = @ + 1]
    /\ pc' = "build_column"
    /\ UNCHANGED <<map, loc, tasks, blk, call, exc, ret>>

\* build_map, lines 279-287: the canvas becomes Map.image and is saved.
BuildMapSave ==
    /\ pc = "build_column"
    /\ bm.column >= Len(map.blocks)
    /\ map' = [map EXCEPT !.image = [ width |-> map.width, height |-> map.height,
                                      pasted |-> bm.pasted ]]
    /\ pc' = "built"
    /\ UNCHANGED <<loc, tasks, bm, blk, call, exc, ret>>

\* ---------------------------------------------------------------- Spec
\* illo.py, line 84: Map(bl_point, tr_point, resolution, scale) for every
\* pair of corners and every (resolution, scale) of the model.
Init ==
    /\ \E bl_lat \in Floats(0, 1), tr_lat \in Floats(0, MaxLat),
          bl_long \in Floats(-MaxLong, 1), tr_long \in Floats(0, MaxLong),
          p \in Params :
            map = NewMap(Point(bl_lat, bl_long), Point(tr_lat, tr_long),
                         p.resolution, p.scale)
    /\ loc = NoLocals
    /\ pc = "main"
    /\ tasks = << >>
    /\ bm = NoBuild
    /\ BlockIdle
    /\ ret = None

Next ==
    \/ SetBlocksBegin
    \/ ColumnLoopBody
    \/ RowLoopBody
    \/ RowLoopExit
    \/ ColumnLoopExit
    \/ GatherLaunch
    \/ \E ref \in DOMAIN tasks, body \in Bodies : TaskResponse(ref, body)
    \/ \E ref \in DOMAIN tasks : TaskConnectorError(ref)
    \/ \E ref \in DOMAIN tasks : TaskImage(ref)
    \/ \E ref \in DOMAIN tasks : TaskUnidentified(ref)
    \/ GatherJoin
    \/ CheckBlocksConsistency
    \/ BuildMapBegin
    \/ BuildMapColumn
    \/ BuildMapPaste
    \/ BuildMapColumnEnd
    \/ BuildMapSave

Spec == Init /\ [][Next]_vars

\* set_blocks on its own, up to the start of the fetch batch.
NextSetBlocks ==
    \/ SetBlocksBegin
    \/ ColumnLoopBody
    \/ RowLoopBody
    \/ RowLoopExit
    \/ ColumnLoopExit
    \/ GatherLaunch

\* The main script is one thread of control that runs no other code while it
\* is in set_blocks: a step of set_blocks that can be taken is taken.
SpecSetBlocks == Init /\ [][NextSetBlocks]_vars /\ WF_vars(NextSetBlocks)

\* ------------------------------------------------- a Block on its own
\* The widths and heights given to the Block methods.
Sizes == {1, MaxPixels - 1, MaxPixels, MaxPixels + 1, 2 * MaxPixels}

\* The latitude and longitude deltas given to the deriving methods.
Deltas == {-1, 0, 1, 2}

\* The resolutions and scales of the blocks driven on their own: those of
\* the Maps, and a pair at which one step of longitude is half a pixel.
BlockParams == Params \cup { [resolution |-> 1, scale |-> 100000] }

\* The Map-level variables while a Block is driven on its own.
MapIdle ==
    /\ map = None /\ loc = NoLocals /\ pc = "block" /\ tasks = << >> /\ bm = NoBuild

InitBlock == MapIdle /\ BlockIdle /\ ret = None

\* Block(bl_point, tr_point, resolution, scale, 0, 0, width, height).
BlockNew(bl_point, tr_point, p, width, height) ==
    /\ blk = None
    /\ call = None
    /\ LET b == NewBlock(bl_point, tr_point, p.resolution, p.scale, 0, 0, width, height)
       IN  /\ call' = [ op |-> "__init__", bl_point |-> bl_point, tr_point |-> tr_point,
                        width |-> width, height |-> height ]
           /\ IF BlockInitRaises(b)
                THEN blk' = None /\ exc' = "BlockException"
                ELSE blk' = b /\ exc' = NoExc
    /\ UNCHANGED <<map, loc, pc, tasks, bm, ret>>

\* blk.set_width(width).
BlockSetWidth(width) ==
    /\ blk /= None
    /\ exc /= "SystemExit"
    /\ call' = [ op |-> "set_width", self |-> blk, width |-> width ]
    /\ blk' = set_width(blk, width)
    /\ exc' = IF SetWidthRaises(width) THEN "BlockException" ELSE NoExc
    /\ UNCHANGED <<map, loc, pc, tasks, bm, ret>>

\* blk.set_height(height).
BlockSetHeight(height) ==
    /\ blk /= None
    /\ exc /= "SystemExit"
    /\ call' = [ op |-> "set_height", self |-> blk, height |-> height ]
    /\ blk' = set_height(blk, height)
    /\ exc' = IF SetHeightRaises(height) THEN "BlockException" ELSE NoExc
    /\ UNCHANGED <<map, loc, pc, tasks, bm, ret>>

\* blk = blk.set_northern_block(lat, last): on to the derived block, or, lines
\* 155-159, out of the process.
BlockSetNorthern(lat, last) ==
    /\ blk /= None
    /\ exc /= "SystemExit"
    /\ blk.x + blk.y < MaxDerived
    /\ LET d == set_northern_block(blk, lat, last)
       IN  /\ call' = [ op |-> "set_northern_block", self |-> blk,
                        lat |-> lat, last |-> last ]
           /\ IF d.exit
                THEN blk' = blk /\ exc' = "SystemExit"
                ELSE blk' = d.block /\ exc' = NoExc
    /\ UNCHANGED <<map, loc, pc, tasks, bm, ret>>

\* blk = blk.set_eastern_block(long, last): on to the derived block, or, lines
\* 172-176, out of the process.
BlockSetEastern(long, last) ==
    /\ blk /= None
    /\ exc /= "SystemExit"
    /\ blk.x + blk.y < MaxDerived
    /\ LET d == set_eastern_block(blk, long, last)
       IN  /\ call' = [ op |-> "set_eastern_block", self |-> blk,
                        long |-> long, last |-> last ]
           /\ IF d.exit
                THEN blk' = blk /\ exc' = "SystemExit"
                ELSE blk' = d.block /\ exc' = NoExc
    /\ UNCHANGED <<map, loc, pc, tasks, bm, ret>>

NextBlock ==
    \/ \E bl_lat \in 0..1, bl_long \in 0..1, tr_lat \in 0..1, tr_long \in 0..1,
          p \in BlockParams, width \in Sizes, height \in Sizes :
            BlockNew(Point(bl_lat, bl_long), Point(tr_lat, tr_long), p, width, height)
    \/ \E width \in Sizes : BlockSetWidth(width)
    \/ \E height \in Sizes : BlockSetHeight(height)
    \/ \E lat \in Deltas, last \in BOOLEAN : BlockSetNorthern(lat, last)
    \/ \E long \in Deltas, last \in BOOLEAN : BlockSetEastern(long, last)

SpecBlock == InitBlock /\ [][NextBlock]_vars

\* --------------------------------------------------- utils and rulers
\* A decimal coordinate given to to_sexagesimal counts units of 1 / SecUnits
\* of a second of arc; to_sexagesimal's seconds, rounded to two decimals,
\* count hundredths of a second.
SecUnits == 500
MinUnits == 60 * SecUnits
DegUnits == 60 * MinUnits

\* int(x) and modf(x)[1]: num / den without its fraction, towards zero.
Trunc(num, den) == IF num >= 0 THEN num \div den ELSE -((-num) \div den)

\* Python's round(x) for x = num / den, den > 0: the nearest integer, the
\* even one of two that are equally near.
Round(num, den) ==
    LET a   == Abs(num)
        lo  == a \div den
        rem == a - lo * den
        r   == IF 2 * rem < den THEN lo
               ELSE IF 2 * rem > den THEN lo + 1
               ELSE IF lo % 2 = 0 THEN lo ELSE lo + 1
    IN  IF num < 0 THEN -r ELSE r

\* utils.to_sexagesimal.  dec_part * 60 is counted in 1 / DegUnits of a
\* minute; round(fraction * 60, 2) is the rounding of fraction * 60 * 100
\* hundredths, that is of (fraction * 60) / (DegUnits / 100).
to_sexagesimal(dec_coord) ==
    LET int_part == Trunc(dec_coord, DegUnits)
        dec_part == dec_coord - int_part * DegUnits
        minutes  == dec_part * 60
        min_part == Trunc(minutes, DegUnits)
        min_frac == minutes - min_part * DegUnits
    IN  [ deg |-> int_part,
          min |-> Abs(min_part),
          sec |-> Abs(Round(min_frac * 60, DegUnits \div 100)) ]

\* 60 seconds, in hundredths.
Sixty == 60 * 100

\* A faulty list that records a last interval of zero seconds as a whole
\* minute, like a first one.
SecondsListLastAsFirst(start, end) ==
    <<IF start.sec /= 0 THEN start.sec ELSE 60 * 100>>
    \o [i \in 1..(end.min - (start.min + 1)) |-> 60 * 100]
    \o <<IF end.sec /= 0 THEN end.sec ELSE 60 * 100>>

\* get_interval_list, lines 368-380, for one edge: the list of second-lengths
\* from the sexagesimal forms of the edge's two ends.
SecondsList(start, end) ==
    <<IF start.sec /= 0 THEN start.sec ELSE Sixty>>
    \o [i \in 1..(end.min - (start.min + 1)) |-> Sixty]
    \o <<IF end.sec /= 0 THEN end.sec ELSE 0>>

RECURSIVE Sum(_)
\* Python's sum of a list of numbers.
Sum(s) == IF s = << >> THEN 0 ELSE Head(s) + Sum(Tail(s))

\* A faulty conversion that gives every interval its share of one minute per
\* interval, not of the seconds there are.
PixelListPerMinute(total, list) ==
    [k \in 1..Len(list) |-> Round(total * list[k], Sixty * Len(list))]

\* get_interval_list, lines 382-387, for one edge: the pixel length of every
\* second-length, round(total * i / sum(list)).
PixelList(total, list) ==
    [k \in 1..Len(list) |-> Round(total * list[k], Sum(list))]

\* Map.get_interval_list: its four lists when it returns (it returns the last
\* two).
get_interval_list(self) ==
    LET bl_latitude    == to_sexagesimal(self.bl_point.latitude)
        tl_latitude    == to_sexagesimal(self.tl_point.latitude)
        bl_longitude   == to_sexagesimal(self.bl_point.longitude)
        br_longitude   == to_sexagesimal(self.br_point.longitude)
        latitude_list  == SecondsList(bl_latitude, tl_latitude)
        longitude_list == SecondsList(bl_longitude, br_longitude)
    IN  [ latitude_list  |-> latitude_list,
          longitude_list |-> longitude_list,
          height_list    |-> PixelList(self.height, latitude_list),
          width_list     |-> PixelList(self.width, longitude_list) ]

\* ------------------------------------------- functions on their own
\* The whole degrees of the coordinates given to to_sexagesimal and of the
\* corners given to get_interval_list: 0 .. MaxDeg.
MaxDeg == 1

\* The decimal coordinates given to to_sexagesimal: of either sign, at the
\* start, in the middle and at the end of a degree, with seconds of 0, just
\* above 0, 1, 15.554 and up to 0.002 below 60.
Decs ==
    { s * (d * DegUnits + m * MinUnits + u) :
        s \in {-1, 1}, d \in 0..MaxDeg, m \in {0, 1, 30, 59},
        u \in {0, 1, 2, 3, SecUnits, 7777, MinUnits - 3, MinUnits - 2, MinUnits - 1} }

\* The latitudes of the corners given to get_interval_list: on a whole minute
\* or 7.5 seconds after it.
LatEnds ==
    { d * DegUnits + m * MinUnits + u : d \in 0..MaxDeg, m \in {0, 2, 58}, u \in {0, 3750} }

\* The longitudes of the corners given to get_interval_list, east and west of
\* Greenwich: on a whole minute or 52.5 seconds after it.
LongEnds == { s * (m * MinUnits + u) : s \in {-1, 1}, m \in {0, 3}, u \in {0, 26250} }

\* The widths and heights of the Map given to get_interval_list.
MapSizes ==
    { [width |-> 1, height |-> 1], [width |-> 2191, height |-> 2918],
      [width |-> 2048, height |-> 4096] }

\* The resolutions and scales given to get_dots.
Resolutions == {100, 200, 256, 512}
Scales == {10000, 25000, 50000}

\* The second point given to get_dots, the first being Point(0, 0): on its
\* meridian or on its parallel.
SecondPoints ==
    {Point(k, 0) : k \in 0..MaxLat} \cup {Point(0, k) : k \in (-MaxLong)..MaxLong}

InitPure ==
    /\ map = None /\ loc = NoLocals /\ pc = "function" /\ tasks = << >> /\ bm = NoBuild
    /\ BlockIdle
    /\ ret = None

\* utils.to_sexagesimal(dec_coord).
ToSexagesimal(dec_coord) ==
    /\ call = None
    /\ call' = [ op |-> "to_sexagesimal", dec_coord |-> dec_coord ]
    /\ ret' = to_sexagesimal(dec_coord)
    /\ UNCHANGED <<map, loc, pc, tasks, bm, blk, exc>>

\* self.get_interval_list(), self a Map with its width and height set.
GetIntervalList(self) ==
    /\ call = None
    /\ call' = [ op |-> "get_interval_list", self |-> self ]
    /\ ret' = get_interval_list(self)
    /\ UNCHANGED <<map, loc, pc, tasks, bm, blk, exc>>

\* block.get_dots(coord1, coord2), block of the given resolution and scale.
GetDots(resolution, scale, coord1, coord2) ==
    /\ call = None
    /\ call' = [ op |-> "get_dots", resolution |-> resolution, scale |-> scale,
                 coord1 |-> coord1, coord2 |-> coord2 ]
    /\ ret' = get_dots(resolution, scale, coord1, coord2)
    /\ UNCHANGED <<map, loc, pc, tasks, bm, blk, exc>>

\* One call in a run.
NextPure ==
    \/ /\ call = None
       /\ \E dec_coord \in Decs : ToSexagesimal(dec_coord)
    \/ /\ call = None
       /\ \E bl_lat \in LatEnds, tr_lat \in LatEnds,
             bl_long \in LongEnds, tr_long \in LongEnds, size \in MapSizes :
               /\ bl_lat < tr_lat /\ bl_long < tr_long
               /\ GetIntervalList([NewMap(Point(bl_lat, bl_long), Point(tr_lat, tr_long),
                                          200, 25000)
                                     EXCEPT !.width = size.width, !.height = size.height])
    \/ /\ call = None
       /\ \E resolution \in Resolutions, scale \in Scales, coord2 \in SecondPoints :
               GetDots(resolution, scale, Point(0, 0), coord2)

SpecPure == InitPure /\ [][NextPure]_vars

\* ---------------------------------------------------------- properties
\* Map.set_blocks has returned to the main script (illo.py, line 89).
SetBlocksReturned ==
    pc \in {"fetched", "checked", "MapException", "build_column", "build_row",
            "ValueError", "built"}

\* The bottom-left corner of the Map lies south-west of its top-right corner.
ValidBox ==
    /\ map.bl_point.latitude < map.tr_point.latitude
    /\ map.bl_point.longitude < map.tr_point.longitude

\* The blocks of the grid.
Blocks == {BlockAt(map.blocks, ref) : ref \in AllRefs(map.blocks)}

\* C1: after set_blocks has completed on a box whose bottom-left corner is
\* south-west of its top-right corner, every block of the grid has a width
\* and a height of no more than 2048 pixels.
BlocksWithinLimit ==
    (SetBlocksReturned /\ ValidBox) =>
        \A b \in Blocks : b.width <= 2048 /\ b.height <= 2048

\* C1's case: a finished grid of four blocks or more, with a full block and a
\* block cut in both directions.
BlocksWithinLimitCase ==
    /\ SetBlocksReturned /\ ValidBox
    /\ NumBlocks(map.blocks) >= 4
    /\ \E b \in Blocks : b.width = 2048 /\ b.height = 2048
    /\ \E b \in Blocks : b.width < 2048 /\ b.height < 2048

\* C2: after set_blocks has completed on a valid box, the top-right corner of
\* the last block of the last column equals the Map's top-right corner in
\* latitude and in longitude, and check_blocks_consistency raises no
\* MapException.
LastBlockEndsAtTopRight ==
    (SetBlocksReturned /\ ValidBox) =>
        /\ LastBlock(map.blocks).tr_point = map.tr_point
        /\ pc /= "MapException"

\* C3: after set_blocks on a valid box the blocks tile the box: blocks[0][0]
\* starts at the Map's bottom-left corner; in a column every block starts at
\* the latitude where the block below it ends and has the column's west and
\* east longitudes; every column starts at the longitude where the previous
\* column ends; and no block reaches beyond the Map's top-right corner.
BlocksStartAtBottomLeft ==
    map.blocks[1][1].bl_point = map.bl_point

ColumnsAreStacked ==
    \A c \in 1..Len(map.blocks) : \A r \in 2..Len(map.blocks[c]) :
        /\ map.blocks[c][r].bl_point.latitude = map.blocks[c][r - 1].tr_point.latitude
        /\ map.blocks[c][r].bl_point.longitude = map.blocks[c][1].bl_point.longitude
        /\ map.blocks[c][r].tr_point.longitude = map.blocks[c][1].tr_point.longitude

ColumnsAreAdjacent ==
    \A c \in 2..Len(map.blocks) : \A r \in 1..Len(map.blocks[c]) :
        map.blocks[c][r].bl_point.longitude = map.blocks[c - 1][1].tr_point.longitude

BlocksWithinTopRight ==
    \A b \in Blocks :
        /\ b.tr_point.latitude <= map.tr_point.latitude
        /\ b.tr_point.longitude <= map.tr_point.longitude

BlocksTileTheBox ==
    (SetBlocksReturned /\ ValidBox) =>
        /\ BlocksStartAtBottomLeft
        /\ ColumnsAreStacked
        /\ ColumnsAreAdjacent
        /\ BlocksWithinTopRight

\* The extent of the Map does not exceed the max block: the two destinations
\* of get_max_block lie at or beyond the Map's edges.
WithinMaxBlock ==
    LET num == MaxPixels * map.scale
        den == map.resolution * DotsK
    IN  /\ destination(map.bl_point, 0, num, den).latitude >= map.tl_point.latitude
        /\ destination(map.bl_point, 90, num, den).longitude >= map.br_point.longitude

\* C4: for a valid box whose extent does not exceed the max block, set_blocks
\* yields a grid of one column of one block, whose width is get_dots of the
\* box's bottom edge and whose height is get_dots of the box's side edge, and
\* Map.width and Map.height are those values.
SingleBlockHasEdgeSizes ==
    (SetBlocksReturned /\ ValidBox /\ WithinMaxBlock) =>
        LET w == get_dots(map.resolution, map.scale, map.bl_point, map.br_point)
            h == get_dots(map.resolution, map.scale, map.br_point, map.tr_point)
        IN  /\ Len(map.blocks) = 1 /\ Len(map.blocks[1]) = 1
            /\ map.blocks[1][1].width = w /\ map.blocks[1][1].height = h
            /\ map.width = w /\ map.height = h

\* C5: after set_blocks, Map.width is the sum of the widths of the first
\* blocks of all columns and Map.height is the sum of the heights of the
\* blocks of column 0.
MapSizeIsSum ==
    SetBlocksReturned =>
        /\ map.width = Sum([c \in 1..Len(map.blocks) |-> map.blocks[c][1].width])
        /\ map.height = Sum([r \in 1..Len(map.blocks[1]) |-> map.blocks[1][r].height])

\* C5's case: a finished grid of two columns or more, of two rows or more,
\* whose last column and last row are cut.
MapSizeIsSumCase ==
    /\ SetBlocksReturned
    /\ Len(map.blocks) >= 2 /\ Len(map.blocks[1]) >= 2
    /\ LastBlock(map.blocks).width < map.blocks[1][1].width
    /\ LastBlock(map.blocks).height < map.blocks[1][1].height

\* The last call on blk was op.
Called(op) == call /= None /\ call.op = op

\* The corners given to the constructor are in order.
OrderedCorners ==
    /\ call.bl_point.latitude <= call.tr_point.latitude
    /\ call.bl_point.longitude <= call.tr_point.longitude

\* C6: Block(...) with a width or a height above 2048 raises BlockException
\* and yields no Block; with width and height 2048 and corners in order it
\* yields the Block, of that size.
ConstructorSizeLimit ==
    Called("__init__") =>
        /\ (call.width > 2048 \/ call.height > 2048) =>
                (exc = "BlockException" /\ blk = None)
        /\ (call.width = 2048 /\ call.height = 2048 /\ OrderedCorners) =>
                (exc = NoExc /\ blk /= None /\ blk.width = 2048 /\ blk.height = 2048)

\* C6's case: the constructor refused a width of 2049 given with a height in
\* range and corners in order.
ConstructorSizeLimitCase ==
    /\ Called("__init__") /\ OrderedCorners
    /\ call.width = 2049 /\ call.height <= 2048
    /\ exc = "BlockException"

\* C7: Block(...) with bl.latitude > tr.latitude or bl.longitude >
\* tr.longitude raises BlockException.
ConstructorRefusesDisorder ==
    (Called("__init__") /\ ~OrderedCorners) => exc = "BlockException"

\* C8: set_width(w) and set_height(h) change their dimension, and nothing
\* else, when the value is no more than 2048; above 2048 they raise
\* BlockException and leave the Block as it was; so a Block's width and height
\* are never above 2048.
SettersKeepLimit ==
    /\ Called("set_width") =>
          IF call.width <= 2048
            THEN exc = NoExc /\ blk = [call.self EXCEPT !.width = call.width]
            ELSE exc = "BlockException" /\ blk = call.self
    /\ Called("set_height") =>
          IF call.height <= 2048
            THEN exc = NoExc /\ blk = [call.self EXCEPT !.height = call.height]
            ELSE exc = "BlockException" /\ blk = call.self
    /\ blk /= None => (blk.width <= 2048 /\ blk.height <= 2048)

\* C8's case: a Block whose width and height earlier setter calls had
\* changed refused a width above 2048.
SettersKeepLimitCase ==
    /\ Called("set_width") /\ call.width > 2048
    /\ exc = "BlockException"
    /\ blk.width < 2048 /\ blk.height < 2048 /\ blk.width /= blk.height

\* Every block of the grid has a fetch task, and every task has returned.
AllTasksOver ==
    /\ DOMAIN tasks = AllRefs(map.blocks)
    /\ \A ref \in DOMAIN tasks : tasks[ref].at \in TaskOver

\* C9: set_blocks returns, and build_map pastes, only once the async_fetch
\* task of every block of the grid has returned, with its image stored, with
\* a decode failure or with a connection failure.
NoPasteDuringFetch ==
    (SetBlocksReturned \/ Len(bm.pasted) > 0 \/ map.image /= None) => AllTasksOver

\* C9's case: build_map has pasted a block of a grid whose batch had a decode
\* failure and a connection failure.
NoPasteDuringFetchCase ==
    /\ Len(bm.pasted) > 0
    /\ \E ref \in DOMAIN tasks : tasks[ref].at = "UnidentifiedImageError"
    /\ \E ref \in DOMAIN tasks : tasks[ref].at = "ClientConnectorError"

\* A step in which the task of block ref ends in a failure.
Fails(ref) ==
    /\ tasks[ref].at \in {"get", "read"}
    /\ tasks'[ref].at \notin {"get", "read", "image"}

\* A step that leaves the task and the block of ref as they are.
Untouched(ref) ==
    /\ ref \in DOMAIN tasks'
    /\ tasks'[ref] = tasks[ref]
    /\ BlockAt(map'.blocks, ref) = BlockAt(map.blocks, ref)

\* C10: a step in which one block's fetch fails leaves every other task and
\* block as they are, and once the batch is over every block whose response
\* was a decodable image has its image set.
FailureSparesSiblings ==
    /\ [][\A ref \in DOMAIN tasks :
            Fails(ref) => \A other \in DOMAIN tasks \ {ref} : Untouched(other)]_vars
    /\ [](SetBlocksReturned =>
            \A ref \in DOMAIN tasks :
                tasks[ref].body = "image" =>
                    (tasks[ref].at = "image" /\ BlockAt(map.blocks, ref).image = Image))

\* C10's case: a batch is over in which one fetch failed to connect, one
\* failed to decode, and a third block has its image.
FailureSparesSiblingsCase ==
    /\ pc = "fetched"
    /\ \E ref \in DOMAIN tasks : tasks[ref].at = "UnidentifiedImageError"
    /\ \E ref \in DOMAIN tasks : tasks[ref].at = "ClientConnectorError"
    /\ \E ref \in DOMAIN tasks :
            tasks[ref].body = "image" /\ BlockAt(map.blocks, ref).image = Image

\* The fetch of block ref has ended without an image: its body was no image,
\* or it got no response at all.
FetchFailed(ref) ==
    /\ tasks[ref].at \notin {"get", "read"}
    /\ tasks[ref].body /= "image"

\* C11: a fetch whose body does not decode as an image, or whose connection
\* fails, returns to the batch that awaits it without raising (the task ends
\* in one of the two except clauses, and the step that ends it leaves the
\* main script where it was), and the block's image stays None from then on.
FailedFetchLeavesNoImage ==
    /\ [](\A ref \in DOMAIN tasks :
            FetchFailed(ref) =>
                /\ tasks[ref].at \in {"UnidentifiedImageError", "ClientConnectorError"}
                /\ BlockAt(map.blocks, ref).image = None)
    /\ [][\A ref \in DOMAIN tasks : Fails(ref) => pc' = pc]_vars

\* C11's case: set_blocks has returned from a batch in which one body did not
\* decode and one connection failed, both blocks without an image.
FailedFetchLeavesNoImageCase ==
    /\ SetBlocksReturned
    /\ \E ref \in DOMAIN tasks :
            /\ tasks[ref] = Task("UnidentifiedImageError", "not an image")
            /\ BlockAt(map.blocks, ref).image = None
    /\ \E ref \in DOMAIN tasks :
            /\ tasks[ref] = Task("ClientConnectorError", "no response")
            /\ BlockAt(map.blocks, ref).image = None

\* C12: when build_map runs on a grid in which a block has no image, it raises
\* no error, pastes nothing for a block without an image, and, once the canvas
\* is saved, has pasted every block that has one.
BuildMapSkipsMissingImage ==
    (\E b \in Blocks : b.image = None) =>
        /\ pc /= "ValueError"
        /\ \A k \in 1..Len(bm.pasted) :
                BlockAt(map.blocks, bm.pasted[k].block).image /= None
        /\ pc = "built" =>
                \A ref \in AllRefs(map.blocks) :
                    BlockAt(map.blocks, ref).image /= None =>
                        \E k \in 1..Len(bm.pasted) : bm.pasted[k].block = ref

\* C13: the pixel lengths get_interval_list returns for an edge sum to the
\* edge's pixel length (Map.height for the latitudes, Map.width for the
\* longitudes) within the number of intervals of the list.
RulerLengthsSumToEdge ==
    Called("get_interval_list") =>
        /\ Abs(Sum(ret.height_list) - call.self.height) <= Len(ret.height_list)
        /\ Abs(Sum(ret.width_list) - call.self.width) <= Len(ret.width_list)

\* C13's case: a ruler of four intervals or more whose rounded lengths do not
\* sum to the edge exactly.
RulerLengthsSumToEdgeCase ==
    /\ Called("get_interval_list")
    /\ Len(ret.height_list) >= 4
    /\ Sum(ret.height_list) /= call.self.height

\* deg + min / 60 + sec / 3600 with the sign of deg, in coordinate units.
Reconstructed(coord) ==
    (IF coord.deg < 0 THEN -1 ELSE 1)
    * (Abs(coord.deg) * DegUnits + coord.min * MinUnits + coord.sec * (SecUnits \div 100))

\* C14: for every decimal coordinate, of either sign, the coordinate
\* reconstructed from to_sexagesimal's result is within 1e-4 degrees of it.
SexagesimalRoundTrip ==
    Called("to_sexagesimal") =>
        Abs(Reconstructed(ret) - call.dec_coord) <= DegUnits \div 10000

\* C15: get_dots does not decrease when the distance between its two points
\* grows, nor when the resolution grows, and does not increase when the scale
\* grows, the other arguments being those of the call.
GetDotsIsMonotone ==
    Called("get_dots") =>
        /\ \A coord2 \in SecondPoints :
                distance(call.coord1, coord2) >= distance(call.coord1, call.coord2) =>
                    get_dots(call.resolution, call.scale, call.coord1, coord2) >= ret
        /\ \A resolution \in Resolutions :
                resolution >= call.resolution =>
                    get_dots(resolution, call.scale, call.coord1, call.coord2) >= ret
        /\ \A scale \in Scales :
                scale >= call.scale =>
                    get_dots(call.resolution, scale, call.coord1, call.coord2) <= ret

\* C15's case: a call with a result above 0 that a greater distance, a greater
\* resolution and a smaller scale each change.
GetDotsIsMonotoneCase ==
    /\ Called("get_dots")
    /\ ret > 0
    /\ \E coord2 \in SecondPoints :
            get_dots(call.resolution, call.scale, call.coord1, coord2) > ret
    /\ \E resolution \in Resolutions :
            get_dots(resolution, call.scale, call.coord1, call.coord2) > ret
    /\ \E scale \in Scales :
            get_dots(call.resolution, scale, call.coord1, call.coord2) > ret

\* The pixel length of an edge of a block derived from self, the edge spanning
\* lat steps of latitude or long steps of longitude, is above the limit.
EdgeAboveLimit(self, lat, long) ==
    get_dots(self.resolution, self.scale, Point(0, 0), Point(lat, long)) > 2048

\* C16: set_northern_block and set_eastern_block end the process (exit status
\* 1) whenever the delta is negative, so that the derived block's bottom-left
\* corner would lie beyond its top-right corner, and whenever the derived
\* block's size would be above 2048; a block they return has its corners in
\* order and a width and a height of no more than 2048.
DerivedBlockIsSound ==
    /\ Called("set_northern_block") =>
          /\ (call.lat < 0 \/ (call.last /\ EdgeAboveLimit(call.self, call.lat, 0))) =>
                exc = "SystemExit"
          /\ exc = NoExc =>
                /\ blk.bl_point.latitude <= blk.tr_point.latitude
                /\ blk.width <= 2048 /\ blk.height <= 2048
    /\ Called("set_eastern_block") =>
          /\ (call.long < 0 \/ (call.last /\ EdgeAboveLimit(call.self, 0, call.long))) =>
                exc = "SystemExit"
          /\ exc = NoExc =>
                /\ blk.bl_point.longitude <= blk.tr_point.longitude
                /\ blk.width <= 2048 /\ blk.height <= 2048

\* C17: to_sexagesimal returns minutes in 0 .. 59 and seconds in 0 .. 59.99
\* (0 .. 5999 hundredths): the seconds never round up to 60.
SexagesimalInRange ==
    Called("to_sexagesimal") =>
        /\ ret.min \in 0..59
        /\ ret.sec \in 0..(Sixty - 1)

\* The whole minutes that lie between the minute in which coordinate start
\* lies and the minute in which coordinate end lies.
WholeMinutesBetween(start, end) == (end \div MinUnits) - (start \div MinUnits) - 1

\* A list without its first and its last element.
Middle(list) == SubSeq(list, 2, Len(list) - 1)

\* C18: for each edge the second-lengths of get_interval_list hold, between
\* the first and the last, one interval of 60 seconds for every whole minute
\* between the edge's two ends, and nothing else, whatever the whole degrees
\* of the two ends.
OneIntervalPerMinute ==
    Called("get_interval_list") =>
        /\ Middle(ret.latitude_list) =
              [k \in 1..WholeMinutesBetween(call.self.bl_point.latitude,
                                            call.self.tl_point.latitude) |-> Sixty]
        /\ Middle(ret.longitude_list) =
              [k \in 1..WholeMinutesBetween(call.self.bl_point.longitude,
                                            call.self.br_point.longitude) |-> Sixty]

\* The widths of the first blocks of the columns before column i (from 0).
WidthsBefore(i) == [c \in 1..i |-> map.blocks[c][1].width]

\* The heights of the blocks of column i that lie north of row j (from 0).
HeightsNorthOf(i, j) ==
    [r \in 1..(Len(map.blocks[i + 1]) - 1 - j) |-> map.blocks[i + 1][j + 1 + r].height]

\* C19: build_map pastes the block of column i, row j at (x, y), x the sum of
\* the widths of the first blocks of columns 0 .. i-1 and y the sum of the
\* heights of the blocks of column i north of row j: column 0 is pasted at
\* x = 0 and the northernmost block of a column at y = 0.
PasteOffsets ==
    \A k \in 1..Len(bm.pasted) :
        LET i == bm.pasted[k].block.x
            j == bm.pasted[k].block.y
        IN  /\ bm.pasted[k].x = Sum(WidthsBefore(i))
            /\ bm.pasted[k].y = Sum(HeightsNorthOf(i, j))
            /\ i = 0 => bm.pasted[k].x = 0
            /\ j = Len(map.blocks[i + 1]) - 1 => bm.pasted[k].y = 0

\* C19's case: build_map has pasted a block to the right of x = 0 and below
\* y = 0.
PasteOffsetsCase ==
    \E k \in 1..Len(bm.pasted) :
        /\ bm.pasted[k].block.x > 0 /\ bm.pasted[k].x > 0
        /\ bm.pasted[k].block.y = 0 /\ bm.pasted[k].y > 0

\* The rectangle of canvas pixels that paste number k covers: from (x, y),
\* of the size of the block (the size asked of the service for its image).
Left(k)   == bm.pasted[k].x
Top(k)    == bm.pasted[k].y
Right(k)  == bm.pasted[k].x + BlockAt(map.blocks, bm.pasted[k].block).width
Bottom(k) == bm.pasted[k].y + BlockAt(map.blocks, bm.pasted[k].block).height

\* The rectangles of pastes k and l have no pixel in common.
Disjoint(k, l) ==
    \/ Right(k) <= Left(l) \/ Right(l) <= Left(k)
    \/ Bottom(k) <= Top(l) \/ Bottom(l) <= Top(k)

\* C20: in a grid built by set_blocks all blocks of a column have the width
\* of the column's first block, the heights of every column sum to Map.height
\* and the widths of the columns to Map.width; and when build_map has pasted
\* the whole grid, the rectangles it pasted lie in the Map.width x Map.height
\* canvas, are disjoint two by two and cover all of it.
GridCoversCanvas ==
    /\ SetBlocksReturned =>
          /\ \A c \in 1..Len(map.blocks) : \A r \in 1..Len(map.blocks[c]) :
                map.blocks[c][r].width = map.blocks[c][1].width
          /\ \A c \in 1..Len(map.blocks) :
                Sum([r \in 1..Len(map.blocks[c]) |-> map.blocks[c][r].height]) = map.height
          /\ Sum(WidthsBefore(Len(map.blocks))) = map.width
    /\ pc = "built" =>
          /\ Len(bm.pasted) = NumBlocks(map.blocks)
          /\ \A k \in 1..Len(bm.pasted) :
                /\ 0 <= Left(k) /\ Right(k) <= map.width
                /\ 0 <= Top(k) /\ Bottom(k) <= map.height
          /\ \A k, l \in 1..Len(bm.pasted) : k /= l => Disjoint(k, l)
          /\ Sum([k \in 1..Len(bm.pasted) |-> (Right(k) - Left(k)) * (Bottom(k) - Top(k))])
                = map.width * map.height

\* C20's case: build_map has pasted a grid of two columns or more and two
\* rows or more, whose last column and last row are cut.
GridCoversCanvasCase ==
    /\ pc = "built"
    /\ Len(map.blocks) >= 2 /\ Len(map.blocks[1]) >= 2
    /\ LastBlock(map.blocks).width < 2048
    /\ LastBlock(map.blocks).height < 2048

\* A step of the column loop that derives the first block of a column east
\* of the first one (lines 167-181).
EasternStep == pc = "column_loop" /\ loc.i /= 0 /\ pc' = "row_loop"

\* A step of the row loop that derives the next block of a column
\* (lines 189-195).
NorthernStep == pc = "row_loop" /\ pc' = "row_loop"

\* The block is partial in longitude: east of its western end start it
\* extends by the float difference between the box's top-right longitude and
\* start, and its width is get_dots of its own southern edge. (Whether that
\* float sum meets the box's longitude is the matter of C2.)
PartialInLongitude(block, start) ==
    /\ block.bl_point.longitude = start
    /\ block.tr_point.longitude =
          FAdd(start, FSub(map.tr_point.longitude, start))
    /\ block.width = get_dots(block.resolution, block.scale,
                              block.bl_point, block.br_point)

\* The block is partial in latitude: north of its southern end start it
\* extends by the float difference between the box's top-right latitude and
\* start, and its height is get_dots of its own eastern edge.
PartialInLatitude(block, start) ==
    /\ block.bl_point.latitude = start
    /\ block.tr_point.latitude =
          FAdd(start, FSub(map.tr_point.latitude, start))
    /\ block.height = get_dots(block.resolution, block.scale,
                               block.br_point, block.tr_point)

\* The derivation of a column's first block: partial exactly when a block
\* of the full longitude would end east of the box.
EasternDerivation ==
    EasternStep =>
        LET self  == BlockAt(map.blocks, loc.column_first_block)
            block == map'.blocks[loc.i + 1][1]
            full  == FAdd(self.tr_point.longitude, loc.long)
        IN  IF full > map.tr_point.longitude
              THEN PartialInLongitude(block, self.tr_point.longitude)
              ELSE /\ block.tr_point.longitude = full
                   /\ block.width = MaxPixels

\* The derivation of a column's next block: partial exactly when a block of
\* the full latitude would end north of the box.
NorthernDerivation ==
    NorthernStep =>
        LET self  == BlockAt(map.blocks, loc.column_block)
            block == BlockAt(map'.blocks, loc'.column_block)
            full  == FAdd(self.tr_point.latitude, loc.lat)
        IN  IF full > map.tr_point.latitude
              THEN PartialInLatitude(block, self.tr_point.latitude)
              ELSE /\ block.tr_point.latitude = full
                   /\ block.height = MaxPixels

\* Every block outside the final column has the default width, every block
\* outside the final row has the default height.
OnlyFinalRowOrColumnResized ==
    \A ref \in AllRefs(map.blocks) :
        /\ ref.x + 1 < Len(map.blocks) =>
              BlockAt(map.blocks, ref).width = MaxPixels
        /\ ref.y + 1 < Len(map.blocks[ref.x + 1]) =>
              BlockAt(map.blocks, ref).height = MaxPixels

\* C21: set_blocks derives a block as partial (last=True: it ends at the
\* box's edge and its width or height is get_dots of its own extent) exactly
\* when the full-size block would end beyond the box's top-right corner, so
\* that only blocks of the final row or column have a recomputed dimension.
PartialExactlyAtTheEdge ==
    /\ [][EasternDerivation /\ NorthernDerivation]_vars
    /\ [](SetBlocksReturned => OnlyFinalRowOrColumnResized)

\* set_blocks has returned a grid of two columns and two rows whose second
\* column and second row are partial while blocks[0][0] has the full size.
PartialExactlyAtTheEdgeCase ==
    /\ SetBlocksReturned
    /\ Len(map.blocks) = 2 /\ Len(map.blocks[1]) = 2 /\ Len(map.blocks[2]) = 2
    /\ map.blocks[1][1].width = MaxPixels /\ map.blocks[1][1].height = MaxPixels
    /\ map.blocks[2][1].width < MaxPixels /\ map.blocks[2][1].tr_point.longitude = map.tr_point.longitude
    /\ map.blocks[1][2].height < MaxPixels /\ map.blocks[1][2].tr_point.latitude = map.tr_point.latitude

\* The least integer that is no less than num / den, for a positive den.
Ceil(num, den) == (num + den - 1) \div den

\* C22: for max-block deltas that are both positive, set_blocks produces
\* ceil(W / dLong) columns for the box's longitude extent W, every column
\* holds ceil(H / dLat) blocks for its latitude extent H, ordered south to
\* north, and blocks[i][j] has the grid coordinates x = i and y = j.
GridIsRegular ==
    (SetBlocksReturned /\ loc.lat > 0 /\ loc.long > 0) =>
        LET W == map.tr_point.longitude - map.bl_point.longitude
            H == map.tr_point.latitude - map.bl_point.latitude
        IN  /\ Len(map.blocks) = Ceil(W, loc.long)
            /\ \A i \in 1..Len(map.blocks) :
                  /\ Len(map.blocks[i]) = Ceil(H, loc.lat)
                  /\ \A j \in 1..(Len(map.blocks[i]) - 1) :
                        /\ map.blocks[i][j].tr_point.latitude
                              = map.blocks[i][j + 1].bl_point.latitude
                        /\ map.blocks[i][j].bl_point.latitude
                              < map.blocks[i][j + 1].bl_point.latitude
            /\ \A ref \in AllRefs(map.blocks) :
                  /\ BlockAt(map.blocks, ref).x = ref.x
                  /\ BlockAt(map.blocks, ref).y = ref.y

\* set_blocks has returned a grid of two columns of two blocks.
GridIsRegularCase ==
    /\ SetBlocksReturned
    /\ loc.lat > 0 /\ loc.long > 0
    /\ Len(map.blocks) = 2 /\ Len(map.blocks[1]) = 2 /\ Len(map.blocks[2]) = 2
    /\ BlockAt(map.blocks, Ref(1, 1)).x = 1
    /\ BlockAt(map.blocks, Ref(1, 1)).y = 1

\* The step changes the image field of the block ref.
WritesImage(ref) ==
    BlockAt(map'.blocks, ref).image /= BlockAt(map.blocks, ref).image

\* The step leaves every field of the block ref but its image as it was.
WritesImageOnly(ref) ==
    BlockAt(map'.blocks, ref)
        = [BlockAt(map.blocks, ref) EXCEPT !.image = BlockAt(map'.blocks, ref).image]

\* The launch: one task per block of the grid, each started and none over.
LaunchesOneTaskPerBlock ==
    (pc = "fetch" /\ pc' = "gather") =>
        /\ DOMAIN tasks' = AllRefs(map.blocks)
        /\ \A ref \in DOMAIN tasks' : tasks'[ref].at = "get"

\* A write of a block's image is the one write of that block's own task,
\* made while the batch is awaited, and it touches nothing else of the grid.
WritesOwnImageOnce ==
    \A ref \in AllRefs(map.blocks) \cap AllRefs(map'.blocks) :
        WritesImage(ref) =>
            /\ pc = "gather" /\ pc' = "gather"
            /\ tasks[ref].at = "read" /\ tasks'[ref].at = "image"
            /\ BlockAt(map.blocks, ref).image = None
            /\ WritesImageOnly(ref)
            /\ \A other \in AllRefs(map.blocks) \ {ref} :
                  BlockAt(map'.blocks, other) = BlockAt(map.blocks, other)

\* A task that is over stays as it is.
OverTasksStay ==
    \A ref \in DOMAIN tasks \cap DOMAIN tasks' :
        tasks[ref].at \in TaskOver => tasks'[ref] = tasks[ref]

\* C23: gather_fetch_workers launches exactly one async_fetch task per block
\* of the grid, all of them before it awaits any; in every interleaving a
\* task writes only the image field of its own block, at most once, and no
\* block's image is written after the batch has been joined.
FetchTasksAreIsolated ==
    [][LaunchesOneTaskPerBlock /\ WritesOwnImageOnce /\ OverTasksStay]_vars

\* The batch of a grid of several blocks is awaited: the task of blocks[0][0]
\* is still waiting for its response while the task of another block has
\* stored its image, and the image of blocks[0][0] is not set.
FetchTasksAreIsolatedCase ==
    /\ pc = "gather"
    /\ Cardinality(DOMAIN tasks) > 1
    /\ tasks[Ref(0, 0)].at = "get"
    /\ BlockAt(map.blocks, Ref(0, 0)).image = None
    /\ \E ref \in DOMAIN tasks :
          /\ tasks[ref].at = "image"
          /\ BlockAt(map.blocks, ref).image = Image

\* A call that derives a block the way set_blocks derives a partial one
\* (lines 176-178 and 194-195): last is True and the extent is positive.
DerivesPartial ==
    \/ Called("set_eastern_block") /\ call.last /\ call.long > 0
    \/ Called("set_northern_block") /\ call.last /\ call.lat > 0

\* C24: every block that set_blocks builds has a width and a height of at
\* least 1 pixel and at most 2048, a partial block of the last row or column
\* that covers a very small extent included: a partial block derived from a
\* block of such sizes has such sizes.
PixelSizesAtLeastOne ==
    (/\ DerivesPartial
     /\ exc = NoExc
     /\ call.self.width \in 1..MaxPixels
     /\ call.self.height \in 1..MaxPixels) =>
        /\ blk.width \in 1..MaxPixels
        /\ blk.height \in 1..MaxPixels

\* The grid of the Map's box has no more blocks than the model builds.
GridFitsBound ==
    LET max_block == get_max_block(map)
        W == map.tr_point.longitude - map.bl_point.longitude
        H == map.tr_point.latitude - map.bl_point.latitude
    IN  /\ max_block.latitude > 0 /\ max_block.longitude > 0
        /\ Ceil(W, max_block.longitude) * Ceil(H, max_block.latitude) <= MaxBlocks

\* C25: for a box whose bottom-left corner is strictly south-west of its
\* top-right corner both loops of set_blocks terminate and the fetch batch
\* is started; when they have terminated, the next column's starting
\* longitude has reached the box's top-right longitude and the next row's
\* starting latitude its top-right latitude.
SetBlocksTerminates ==
    /\ []((pc = "main" /\ ValidBox /\ GridFitsBound) => <>(pc = "gather"))
    /\ []((pc \in {"fetch", "gather"} /\ ValidBox) =>
            /\ loc.block_starting_longitude >= map.tr_point.longitude
            /\ loc.next_block_starting_latitude >= map.tr_point.latitude)

\* The fetch batch of a valid box is started after the column loop made two
\* passes and the row loop of each column added a block.
SetBlocksTerminatesCase ==
    /\ pc = "gather"
    /\ ValidBox
    /\ loc.i = 2
    /\ Len(map.blocks[1]) = 2 /\ Len(map.blocks[2]) = 2
    /\ DOMAIN tasks = AllRefs(map.blocks)

\* The last element of a list that is not empty.
Last(list) == list[Len(list)]

\* The first and the last second-length of list are those of an edge from
\* start to end: the seconds of the two ends, but 60 seconds for a start with
\* 0 seconds and 0 for an end with 0 seconds.
EndsOfList(list, start, end) ==
    /\ Head(list) = IF start.sec = 0 THEN Sixty ELSE start.sec
    /\ Last(list) = IF end.sec = 0 THEN 0 ELSE end.sec

\* C26: get_interval_list records a partial interval of zero seconds with
\* length 60 when it is the first of an edge's list (the starting corner has
\* 0 seconds) and with length 0 when it is the last of the list (the ending
\* corner has 0 seconds).
ZeroSecondIntervals ==
    Called("get_interval_list") =>
        /\ EndsOfList(ret.latitude_list,
                      to_sexagesimal(call.self.bl_point.latitude),
                      to_sexagesimal(call.self.tl_point.latitude))
        /\ EndsOfList(ret.longitude_list,
                      to_sexagesimal(call.self.bl_point.longitude),
                      to_sexagesimal(call.self.br_point.longitude))

\* get_interval_list was called on a Map whose western edge starts and ends
\* on a whole minute: its list starts with 60 seconds and ends with 0.
ZeroSecondIntervalsCase ==
    /\ Called("get_interval_list")
    /\ to_sexagesimal(call.self.bl_point.latitude).sec = 0
    /\ to_sexagesimal(call.self.tl_point.latitude).sec = 0
    /\ Len(ret.latitude_list) > 2
    /\ Head(ret.latitude_list) = Sixty
    /\ Last(ret.latitude_list) = 0

====
